---- MODULE Spec2Model ----
(***************************************************************************)
(* Model of the DCA1000 host-side driver (src/Dev01.py): the UDP data path *)
(* (DCA1000.read and DCA1000._read_data_packet) that reassembles frames    *)
(* from data packets, and the UDP control path (DCA1000.send_command and   *)
(* DCA1000.configure).                                                     *)
(*                                                                         *)
(* The frame geometry is computed as the source computes it, from scaled   *)
(* down parameters: the source has 1456-byte packets and a 786432-byte     *)
(* frame (540 whole packets and 192 residual bytes); the model has         *)
(* 2*PacketWords-byte packets and a 4*NumChirps-byte frame.                *)
(***************************************************************************)
EXTENDS Integers, Sequences, FiniteSets, TLC

VARIABLES
    pc,            \* where DCA1000.read is: "idle", "seek" (first loop), "accum" (second loop)
    ret_frame,     \* read's local ret_frame; after a return, the array returned (<<>> if none)
    packets_read,  \* read's local packets_read (0 while it is not yet assigned)
    lost_packets,  \* self.lost_packets: <<>> for None, <<n>> once a frame was returned
    result,        \* what the last read() that ended gave: "None", "frame", "ValueError"
    pkt,           \* the last (packet_num, byte_count, packet_data) of _read_data_packet
    dlen,          \* length of the last datagram recvfrom gave, -1 for a timeout
    net,           \* datagrams queued on the data socket, oldest first
    scenario,      \* which synthetic stream net was filled with (StreamSpec), and the
                   \* sequence number of the packet that closed the last frame returned
    cfg_step,      \* configure(): 0 when not running, k while in its k-th send_command
    awaiting,      \* number of the datagram whose send_command blocks in recvfrom, else 0
    sends,         \* datagrams sent on the config socket so far; the last one's number
    call,          \* arguments of the last send_command call
    sent_msg,      \* bytes of the last datagram sent on the config socket
    response,      \* what the last send_command that ended gave
    cfg_result,    \* how the last configure() ended: "done", "AttributeError"
    device_pending,\* commands the device got and has not answered yet
    cfg_sock       \* replies queued on the config socket, oldest first

dataVars == <<pc, ret_frame, packets_read, lost_packets, result, pkt, dlen, net, scenario>>

ctlVars == <<cfg_step, awaiting, sends, call, sent_msg, response, cfg_result,
             device_pending, cfg_sock>>

vars == <<dataVars, ctlVars>>

(***************************************************************************)
(* Bounds of the model.                                                    *)
(***************************************************************************)
\* ADC_PARAMS['chirps'] of the model (128 in the source)
NumChirps == 5
\* uint16 words in the payload of a full packet (728 in the source)
PacketWords == 3
\* payload words take the values 1..MaxWord
MaxWord == 1
\* consecutive frames in a synthetic stream
MaxFrames == 3
\* datagrams sent on the config socket in one run
MaxSends == 5

(***************************************************************************)
(* Frame geometry, src/Dev01.py lines 30-50.                               *)
(***************************************************************************)
ADC_PARAMS ==
    [chirps |-> NumChirps, rx |-> 1, tx |-> 1, samples |-> 1, IQ |-> 2, bytes |-> 2]

BYTES_IN_PACKET == 2 * PacketWords

BYTES_IN_FRAME ==
    ADC_PARAMS.chirps * ADC_PARAMS.rx * ADC_PARAMS.tx *
    ADC_PARAMS.IQ * ADC_PARAMS.samples * ADC_PARAMS.bytes

BYTES_IN_FRAME_CLIPPED == (BYTES_IN_FRAME \div BYTES_IN_PACKET) * BYTES_IN_PACKET

PACKETS_IN_FRAME_CLIPPED == BYTES_IN_FRAME \div BYTES_IN_PACKET

UINT16_IN_PACKET == BYTES_IN_PACKET \div 2

UINT16_IN_FRAME == BYTES_IN_FRAME \div 2

\* bytes of a data packet before the payload: data[:4] and data[4:10]
HEADER_BYTES == 10

NoneValue == "None"

(***************************************************************************)
(* Python and numpy primitives the code uses.                              *)
(***************************************************************************)
Min(a, b) == IF a < b THEN a ELSE b

\* Python s[a:b] for 0 <= a <= b: the slice is clipped to the sequence
Slice(s, a, b) ==
    LET lo == Min(a, Len(s))
        hi == Min(b, Len(s))
    IN  [i \in 1..(hi - lo) |-> s[lo + i]]

\* Python s[::-1]
Reverse(s) == [i \in 1..Len(s) |-> s[Len(s) + 1 - i]]

\* the unsigned big-endian value of a byte string
RECURSIVE BigEndian(_)
BigEndian(b) ==
    IF Len(b) = 0 THEN 0
    ELSE 256 * BigEndian(SubSeq(b, 1, Len(b) - 1)) + b[Len(b)]

\* the four bytes read most significant byte first, as '>1l' would
unpack_l_BigEndian(b) ==
    IF b[1] >= 128
    THEN -BigEndian([i \in 1..4 |-> 255 - b[i]]) - 1
    ELSE BigEndian(b)

\* struct.unpack('<1l', b)[0] for Len(b) = 4: little-endian two's complement
unpack_l(b) ==
    IF b[4] >= 128
    THEN -BigEndian(Reverse([i \in 1..4 |-> 255 - b[i]])) - 1
    ELSE BigEndian(Reverse(b))

\* struct.unpack('>Q', b)[0] for Len(b) = 8
unpack_Q(b) == BigEndian(b)

\* np.frombuffer(b, dtype=np.uint16) for Len(b) even: little-endian words
frombuffer(b) == [i \in 1..(Len(b) \div 2) |-> b[2 * i - 1] + 256 * b[2 * i]]

\* np.zeros(n, dtype=np.uint16)
zeros(n) == [i \in 1..n |-> 0]

\* numpy's buf[a:b] = data: the slice is clipped to the array; data of the
\* slice's length is copied, data of length 1 is broadcast, anything else
\* raises ValueError and leaves the array as it was
SliceAssign(buf, a, b, data) ==
    LET lo == Min(a, Len(buf))
        hi == Min(b, Len(buf))
        n  == hi - lo
    IN  IF Len(data) = n
        THEN [raised |-> FALSE,
              buf |-> [i \in 1..Len(buf) |->
                          IF i > lo /\ i <= hi THEN data[i - lo] ELSE buf[i]]]
        ELSE IF Len(data) = 1
        THEN [raised |-> FALSE,
              buf |-> [i \in 1..Len(buf) |->
                          IF i > lo /\ i <= hi THEN data[1] ELSE buf[i]]]
        ELSE [raised |-> TRUE, buf |-> buf]

(***************************************************************************)
(* The datagrams the device may put on the data socket.                    *)
(***************************************************************************)
\* the 4 bytes the device sends for sequence number n
EncodeSeq(n) ==
    LET u == IF n < 0 THEN -n - 1 ELSE n
        raw == <<u % 256, (u \div 256) % 256, (u \div 65536) % 256, u \div 16777216>>
    IN  IF n < 0 THEN [i \in 1..4 |-> 255 - raw[i]] ELSE raw

\* the 6 bytes the device sends for byte count c (c < 2^24 in the model)
EncodeCount(c) == <<c % 256, (c \div 256) % 256, c \div 65536, 0, 0, 0>>

\* the bytes of n payload words of value v
RECURSIVE PayloadBytes(_, _)
PayloadBytes(n, v) == IF n = 0 THEN <<>> ELSE <<v % 256, v \div 256>> \o PayloadBytes(n - 1, v)

Datagram(num, bc, n, v) == EncodeSeq(num) \o EncodeCount(bc) \o PayloadBytes(n, v)

SeqNums == (-1)..(PACKETS_IN_FRAME_CLIPPED + 1)

ByteCounts == {0, BYTES_IN_PACKET, BYTES_IN_FRAME_CLIPPED}

Words == 1..MaxWord

\* well-formed datagrams: no payload, one word, a full packet, and (for one
\* sequence number) one word more than a full packet
GoodDatagrams ==
    {Datagram(num, bc, 0, 1) : num \in SeqNums, bc \in ByteCounts}
    \cup {Datagram(num, bc, n, v) : num \in SeqNums, bc \in ByteCounts,
                                    n \in {1, UINT16_IN_PACKET}, v \in Words}
    \cup {Datagram(1, bc, UINT16_IN_PACKET + 1, 1) : bc \in ByteCounts}

\* datagrams cut short: inside the header, or in the middle of a payload word
CutDatagrams ==
    {Slice(Datagram(1, BYTES_IN_FRAME_CLIPPED, UINT16_IN_PACKET, 1), 0, k) :
        k \in (0..(HEADER_BYTES - 1)) \cup {HEADER_BYTES + 1}}

Datagrams == GoodDatagrams \cup CutDatagrams

\* what one recvfrom on the data socket gives: a datagram or socket.timeout
Events ==
    {[timeout |-> TRUE, data |-> <<>>]} \cup {[timeout |-> FALSE, data |-> d] : d \in Datagrams}

(***************************************************************************)
(* DCA1000._read_data_packet, src/Dev01.py lines 201-213.                  *)
(***************************************************************************)
NoPacket == [ok |-> FALSE, num |-> 0, bc |-> 0, data |-> <<>>]

\* line 204: the operand of struct.unpack('>Q'), b'\x00\x00' + data[4:10][::-1]
CountField(data) == <<0, 0>> \o Reverse(Slice(data, 4, 10))

\* the decoder without the length check of data[4:10]: a short counter field
\* is read as if it were complete
_read_data_packet_ShortCount(ev) ==
    IF ev.timeout THEN NoPacket
    ELSE LET data == ev.data
             a == Slice(data, 0, 4)
             b == CountField(data)
             c == Slice(data, 10, Len(data))
         IN  IF Len(a) # 4 \/ Len(c) % 2 # 0
             THEN NoPacket
             ELSE [ok |-> TRUE, num |-> unpack_l(a), bc |-> unpack_Q(b),
                   data |-> frombuffer(c)]

_read_data_packet(ev) ==
    IF ev.timeout THEN NoPacket
    ELSE LET data == ev.data
             a == Slice(data, 0, 4)
             b == CountField(data)
             c == Slice(data, 10, Len(data))
         IN  IF Len(a) # 4 \/ Len(b) # 8 \/ Len(c) % 2 # 0
             THEN NoPacket   \* struct.error or ValueError, caught by "except Exception"
             ELSE [ok |-> TRUE, num |-> unpack_l(a), bc |-> unpack_Q(b),
                   data |-> frombuffer(c)]

EventLen(ev) == IF ev.timeout THEN -1 ELSE Len(ev.data)

\* every outcome of one _read_data_packet call: the length recvfrom saw (-1 for
\* a timeout) and the triple returned
Receptions == {[len |-> EventLen(ev), p |-> _read_data_packet(ev)] : ev \in Events}

(***************************************************************************)
(* DCA1000.read, src/Dev01.py lines 141-185.                               *)
(***************************************************************************)
\* "return None", "return ret_frame" and an exception leaving read()
Return(kind, frame) ==
    /\ pc' = "idle"
    /\ result' = kind
    /\ ret_frame' = frame

\* a buffer of the clipped frame size
NewFrame_Clipped == zeros(BYTES_IN_FRAME_CLIPPED \div 2)

\* line 155: the frame buffer of one call
NewFrame == zeros(UINT16_IN_FRAME)

\* no packet: the buffer filled so far is returned
AbortRead_Partial ==
    /\ Return("frame", ret_frame)
    /\ UNCHANGED lost_packets

\* no packet: the loop goes on to the next receive
AbortRead_Continue ==
    UNCHANGED <<pc, result, ret_frame, lost_packets>>

\* no packet: the loss count of the unfinished frame is stored
AbortRead_StoresLoss ==
    /\ Return(NoneValue, <<>>)
    /\ lost_packets' = <<PACKETS_IN_FRAME_CLIPPED - packets_read>>

\* lines 160-161 and 170-171: no packet (timeout or undecodable datagram)
AbortRead ==
    /\ Return(NoneValue, <<>>)
    /\ UNCHANGED lost_packets

\* lines 152-155: the call of read()
ReadStart ==
    /\ pc = "idle"
    /\ pc' = "seek"
    /\ ret_frame' = NewFrame
    /\ packets_read' = 0
    /\ pkt' = NoPacket
    /\ dlen' = -1
    /\ UNCHANGED <<lost_packets, result>>

\* lines 158-165: one turn of the loop that waits for the start of a frame
ReadSeek(rx) ==
    /\ pc = "seek"
    /\ LET p == rx.p
           w == SliceAssign(ret_frame, 0, UINT16_IN_PACKET, p.data)
       IN  /\ pkt' = p
           /\ dlen' = rx.len
           /\ IF ~p.ok
              THEN AbortRead /\ UNCHANGED packets_read
              ELSE IF p.bc % BYTES_IN_FRAME_CLIPPED = 0
              THEN /\ packets_read' = 1
                   /\ UNCHANGED lost_packets
                   /\ IF w.raised
                      THEN Return("ValueError", <<>>)   \* line 164 is outside any try
                      ELSE /\ ret_frame' = w.buf
                           /\ pc' = "accum"
                           /\ UNCHANGED result
              ELSE UNCHANGED <<pc, ret_frame, packets_read, result, lost_packets>>

\* the loss count never shown below zero
LostPackets_Clamped(n) ==
    IF PACKETS_IN_FRAME_CLIPPED - n < 0 THEN 0 ELSE PACKETS_IN_FRAME_CLIPPED - n

\* line 175: the loss count stored when a frame is returned, for n packets read
LostPackets(n) == PACKETS_IN_FRAME_CLIPPED - n

\* the slot taken from the sequence number without wrapping it into the frame
CurrIdx_NoWrap(num) == num - 1

\* the slot taken modulo one packet more than the clipped frame holds
CurrIdx_Upper(num) == (num - 1) % (PACKETS_IN_FRAME_CLIPPED + 1)

\* line 178: the slot of a packet (Python's % gives a result in 0..P-1)
CurrIdx(num) == (num - 1) % PACKETS_IN_FRAME_CLIPPED

\* a counter that starts again at one
SafetyValve_ToOne(n) == IF n > PACKETS_IN_FRAME_CLIPPED THEN 1 ELSE n

\* a counter that is never reset
SafetyValve_Never(n) == n

\* lines 184-185: the packet counter starts again at zero once it exceeds a frame
SafetyValve(n) == IF n > PACKETS_IN_FRAME_CLIPPED THEN 0 ELSE n

\* lines 168-185: one turn of the loop that reads the rest of the frame
ReadAccum(rx) ==
    /\ pc = "accum"
    /\ LET p == rx.p
           curr_idx == CurrIdx(p.num)
           w == SliceAssign(ret_frame, curr_idx * UINT16_IN_PACKET,
                            (curr_idx + 1) * UINT16_IN_PACKET, p.data)
       IN  /\ pkt' = p
           /\ dlen' = rx.len
           /\ IF ~p.ok
              THEN AbortRead /\ UNCHANGED packets_read
              ELSE IF p.bc % BYTES_IN_FRAME_CLIPPED = 0
              THEN /\ packets_read' = packets_read + 1
                   /\ lost_packets' = <<LostPackets(packets_read + 1)>>
                   /\ Return("frame", ret_frame)
              ELSE /\ ret_frame' = w.buf     \* a ValueError is swallowed by "except: pass"
                   /\ packets_read' = SafetyValve(packets_read + 1)
                   /\ UNCHANGED <<pc, result, lost_packets>>

\* one turn of either loop of read()
ReadStep(rx) == ReadSeek(rx) \/ ReadAccum(rx)

(***************************************************************************)
(* The command codec, src/Dev01.py lines 8-29 and 97-106.  A hex string is *)
(* the sequence of its digits' values.                                     *)
(***************************************************************************)
CMD ==
    [RESET_FPGA_CMD_CODE              |-> <<0, 1, 0, 0>>,
     RESET_AR_DEV_CMD_CODE            |-> <<0, 2, 0, 0>>,
     CONFIG_FPGA_GEN_CMD_CODE         |-> <<0, 3, 0, 0>>,
     CONFIG_EEPROM_CMD_CODE           |-> <<0, 4, 0, 0>>,
     RECORD_START_CMD_CODE            |-> <<0, 5, 0, 0>>,
     RECORD_STOP_CMD_CODE             |-> <<0, 6, 0, 0>>,
     PLAYBACK_START_CMD_CODE          |-> <<0, 7, 0, 0>>,
     PLAYBACK_STOP_CMD_CODE           |-> <<0, 8, 0, 0>>,
     SYSTEM_CONNECT_CMD_CODE          |-> <<0, 9, 0, 0>>,
     SYSTEM_ERROR_CMD_CODE            |-> <<0, 10, 0, 0>>,
     CONFIG_PACKET_DATA_CMD_CODE      |-> <<0, 11, 0, 0>>,
     CONFIG_DATA_MODE_AR_DEV_CMD_CODE |-> <<0, 12, 0, 0>>,
     INIT_FPGA_PLAYBACK_CMD_CODE      |-> <<0, 13, 0, 0>>,
     READ_FPGA_VERSION_CMD_CODE       |-> <<0, 14, 0, 0>>]

CONFIG_HEADER == <<5, 10, 10, 5>>

CONFIG_FOOTER == <<10, 10, 14, 14>>

\* bytes.fromhex(h) for a string of hex digits: an odd number of digits raises
fromhex(h) ==
    IF Len(h) % 2 # 0 THEN [raised |-> TRUE, bytes |-> <<>>]
    ELSE [raised |-> FALSE,
          bytes |-> [i \in 1..(Len(h) \div 2) |-> 16 * h[2 * i - 1] + h[2 * i]]]

\* lines 97-104: the message of a call; typed for a CMD member, raw for a str
BuildMessage(c) ==
    IF c.typed
    THEN fromhex(CONFIG_HEADER \o CMD[c.cmd] \o c.length \o c.params \o CONFIG_FOOTER)
    ELSE fromhex(c.raw)

TypedCall(cmd, length, params) ==
    [typed |-> TRUE, cmd |-> cmd, length |-> length, params |-> params, raw |-> <<>>]

RawCall(raw) ==
    [typed |-> FALSE, cmd |-> "", length |-> <<>>, params |-> <<>>, raw |-> raw]

\* lines 122-140: the five calls of configure(), in order
ConfigureCalls ==
    <<TypedCall("SYSTEM_CONNECT_CMD_CODE", <<0, 0, 0, 0>>, <<>>),
      TypedCall("READ_FPGA_VERSION_CMD_CODE", <<0, 0, 0, 0>>, <<>>),
      TypedCall("CONFIG_FPGA_GEN_CMD_CODE", <<0, 6, 0, 0>>,
                <<0, 1, 0, 2, 0, 1, 0, 2, 0, 3, 1, 14>>),
      TypedCall("CONFIG_PACKET_DATA_CMD_CODE", <<0, 6, 0, 0>>,
                <<11, 14, 0, 5, 3, 5, 0, 12, 0, 0, 0, 0>>),
      TypedCall("RECORD_START_CMD_CODE", <<0, 0, 0, 0>>, <<>>)>>

\* calls a user of the class makes: line 236, and typed calls with the length
\* and params arguments of the caller's choice
UserCalls ==
    {RawCall(<<5, 10, 10, 5, 0, 6, 0, 0, 0, 0, 0, 0, 10, 10, 14, 14>>)}
    \cup {TypedCall(cmd, length, params) :
            cmd \in {"RECORD_STOP_CMD_CODE", "CONFIG_FPGA_GEN_CMD_CODE"},
            length \in {<<0, 0, 0, 0>>, <<0, 6, 0, 0>>},
            params \in {<<>>, <<0>>, <<0, 1, 0, 2, 0, 1, 0, 2, 0, 3, 1, 14>>}}

(***************************************************************************)
(* DCA1000.send_command, src/Dev01.py lines 94-115, and                    *)
(* DCA1000.configure, lines 117-140.                                       *)
(***************************************************************************)
NoResponse == [kind |-> "none", to |-> 0]

\* lines 96-109: build the message and send it; send_command then blocks in
\* recvfrom.  A ValueError of bytes.fromhex leaves send_command at once.
SendCommand(c) ==
    LET m == BuildMessage(c)
    IN  /\ call' = c
        /\ IF m.raised
           THEN /\ response' = [kind |-> "ValueError", to |-> 0]
                /\ awaiting' = 0
                /\ UNCHANGED <<sends, sent_msg, device_pending>>
           ELSE /\ sends' = sends + 1
                /\ sent_msg' = m.bytes
                /\ awaiting' = sends + 1
                /\ device_pending' = device_pending \cup {sends + 1}

\* a call of send_command from outside configure()
UserCall(c) ==
    /\ cfg_step = 0 /\ awaiting = 0 /\ sends < MaxSends
    /\ SendCommand(c)
    /\ IF BuildMessage(c).raised THEN TRUE ELSE UNCHANGED response
    /\ UNCHANGED <<cfg_step, cfg_result, cfg_sock>>

\* line 122: configure() is called and makes its first send_command call
ConfigureStart ==
    /\ cfg_step = 0 /\ awaiting = 0 /\ sends < MaxSends
    /\ cfg_step' = 1
    /\ SendCommand(ConfigureCalls[1])
    /\ UNCHANGED <<response, cfg_result, cfg_sock>>

\* lines 112-113: recvfrom gives the oldest queued datagram, send_command
\* returns it; inside configure() the next print(send_command(...).hex()) follows
RecvResponse ==
    /\ awaiting # 0 /\ cfg_sock # <<>>
    /\ cfg_sock' = Tail(cfg_sock)
    /\ IF cfg_step = 0
       THEN /\ response' = [kind |-> "reply", to |-> Head(cfg_sock)]
            /\ awaiting' = 0
            /\ UNCHANGED <<cfg_step, cfg_result, call, sends, sent_msg, device_pending>>
       ELSE IF cfg_step < Len(ConfigureCalls)
       THEN /\ sends < MaxSends
            /\ response' = [kind |-> "reply", to |-> Head(cfg_sock)]
            /\ cfg_step' = cfg_step + 1
            /\ SendCommand(ConfigureCalls[cfg_step + 1])
            /\ UNCHANGED cfg_result
       ELSE /\ response' = [kind |-> "reply", to |-> Head(cfg_sock)]
            /\ awaiting' = 0
            /\ cfg_step' = 0
            /\ cfg_result' = "done"
            /\ UNCHANGED <<call, sends, sent_msg, device_pending>>

\* lines 114-115: no datagram within the timeout, send_command returns a str;
\* inside configure() the .hex() of that str raises AttributeError
RecvTimeout ==
    /\ awaiting # 0 /\ cfg_sock = <<>>
    /\ response' = [kind |-> "timeout", to |-> 0]
    /\ awaiting' = 0
    /\ cfg_step' = 0
    /\ cfg_result' = IF cfg_step = 0 THEN cfg_result ELSE "AttributeError"
    /\ UNCHANGED <<call, sends, sent_msg, device_pending, cfg_sock>>

\* the device answers one of the commands it got; the reply is queued on the
\* config socket whether or not a send_command is still waiting for it
DeviceReply(n) ==
    /\ n \in device_pending
    /\ device_pending' = device_pending \ {n}
    /\ cfg_sock' = Append(cfg_sock, n)
    /\ UNCHANGED <<cfg_step, awaiting, sends, call, sent_msg, response, cfg_result>>

CtlInit ==
    /\ cfg_step = 0
    /\ awaiting = 0
    /\ sends = 0
    /\ call = RawCall(<<>>)
    /\ sent_msg = <<>>
    /\ response = NoResponse
    /\ cfg_result = "none"
    /\ device_pending = {}
    /\ cfg_sock = <<>>

(***************************************************************************)
(* The data path with any datagram, or a timeout, at every receive.        *)
(***************************************************************************)
DataInit ==
    /\ pc = "idle"
    /\ ret_frame = <<>>
    /\ packets_read = 0
    /\ lost_packets = <<>>
    /\ result = "none"
    /\ pkt = NoPacket
    /\ dlen = -1

NoScenario == [frames |-> 0, prefixed |-> FALSE, omitted |-> 0, closing |-> <<>>]

Init ==
    /\ DataInit
    /\ net = <<>>
    /\ scenario = NoScenario
    /\ CtlInit

AnyReceive == \E rx \in Receptions : ReadStep(rx) /\ UNCHANGED <<net, scenario, ctlVars>>

Next ==
    \/ ReadStart /\ UNCHANGED <<net, scenario, ctlVars>>
    \/ AnyReceive

Spec == Init /\ [][Next]_vars

\* read() does not stop between two receives: recvfrom returns a datagram or
\* times out
LiveSpec == Init /\ [][Next]_vars /\ WF_vars(AnyReceive)

(***************************************************************************)
(* The data path fed with one synthetic stream: the packets of 1..MaxFrames*)
(* consecutive frames in order, packet i with sequence number i, byte      *)
(* count i*BYTES_IN_PACKET and payload words of value i, optionally        *)
(* without one packet and optionally after a packet that ends an earlier   *)
(* frame; a receive on the drained socket times out.                       *)
(***************************************************************************)
RECURSIVE Stream(_, _, _)
Stream(i, last, omitted) ==
    IF i > last THEN <<>>
    ELSE (IF i = omitted THEN <<>>
          ELSE <<Datagram(i, i * BYTES_IN_PACKET, UINT16_IN_PACKET, i)>>)
         \o Stream(i + 1, last, omitted)

EarlierBoundary == Datagram(0, 0, UINT16_IN_PACKET, 1)

StreamInit ==
    /\ DataInit
    /\ CtlInit
    /\ \E frames \in 1..MaxFrames, prefixed \in BOOLEAN :
          \E omitted \in 0..(frames * PACKETS_IN_FRAME_CLIPPED - 1) :
             /\ scenario = [frames |-> frames, prefixed |-> prefixed, omitted |-> omitted,
                             closing |-> <<>>]
             /\ net = (IF prefixed THEN <<EarlierBoundary>> ELSE <<>>)
                      \o Stream(1, frames * PACKETS_IN_FRAME_CLIPPED, omitted)

\* the record of the stream, with the packet noted that closes a frame
NoteClosing(p) ==
    IF pc = "accum" /\ p.ok /\ p.bc % BYTES_IN_FRAME_CLIPPED = 0
    THEN [scenario EXCEPT !.closing = <<p.num>>]
    ELSE scenario

\* a receive that leaves the packet that closes a frame on the socket
StreamReceive_Peek ==
    LET ev == IF net = <<>> THEN [timeout |-> TRUE, data |-> <<>>]
              ELSE [timeout |-> FALSE, data |-> Head(net)]
        p == _read_data_packet(ev)
    IN  /\ ReadStep([len |-> EventLen(ev), p |-> p])
        /\ net' = IF net = <<>> \/ NoteClosing(p) # scenario THEN net ELSE Tail(net)
        /\ scenario' = NoteClosing(p)
        /\ UNCHANGED ctlVars

\* recvfrom on the data socket: the oldest queued datagram, else socket.timeout
StreamReceive ==
    LET ev == IF net = <<>> THEN [timeout |-> TRUE, data |-> <<>>]
              ELSE [timeout |-> FALSE, data |-> Head(net)]
        p == _read_data_packet(ev)
    IN  /\ ReadStep([len |-> EventLen(ev), p |-> p])
        /\ net' = IF net = <<>> THEN net ELSE Tail(net)
        /\ scenario' = NoteClosing(p)
        /\ UNCHANGED ctlVars

StreamNext ==
    \/ ReadStart /\ UNCHANGED <<net, scenario, ctlVars>>
    \/ StreamReceive

StreamSpec == StreamInit /\ [][StreamNext]_vars

(***************************************************************************)
(* The header decode of _read_data_packet on its own: one datagram with    *)
(* arbitrary header bytes waits on the data socket and read() receives it. *)
(* Byte counts stay below 2^31 (bytes 8 and 9 are zero, byte 7 is at most  *)
(* 127), sequence numbers cover the whole signed range.                    *)
(***************************************************************************)
SeqByteValues == {0, 128, 255}

CountByteValues == {0, 1, 255}

DecodeInputs ==
    {<<b0, b1, b2, b3, c0, c1, c2, c3, 0, 0>> \o PayloadBytes(n, 1) :
        b0 \in SeqByteValues, b1 \in SeqByteValues, b2 \in SeqByteValues,
        b3 \in SeqByteValues,
        c0 \in CountByteValues, c1 \in CountByteValues, c2 \in CountByteValues,
        c3 \in {0, 127}, n \in {0, UINT16_IN_PACKET}}

DecodeInit ==
    /\ DataInit
    /\ CtlInit
    /\ scenario = NoScenario
    /\ \E d \in DecodeInputs : net = <<d>>

DecodeSpec == DecodeInit /\ [][StreamNext]_vars

(***************************************************************************)
(* The control path: configure() and send_command calls, and the device    *)
(* answering.                                                              *)
(***************************************************************************)
CtlNext ==
    \/ \E c \in UserCalls : UserCall(c) /\ UNCHANGED dataVars
    \/ ConfigureStart /\ UNCHANGED dataVars
    \/ RecvResponse /\ UNCHANGED dataVars
    \/ RecvTimeout /\ UNCHANGED dataVars
    \/ \E n \in 1..MaxSends : DeviceReply(n) /\ UNCHANGED dataVars

CtlSpec == Init /\ [][CtlNext]_vars

(***************************************************************************)
(* Claims about the data path.                                             *)
(***************************************************************************)
IsBoundary(p) == p.ok /\ p.bc % BYTES_IN_FRAME_CLIPPED = 0

\* words [k*UINT16_IN_PACKET, (k+1)*UINT16_IN_PACKET) of a frame
SlotWords(frame, k) == {frame[i] : i \in (k * UINT16_IN_PACKET + 1)..((k + 1) * UINT16_IN_PACKET)}

\* the read() that drained the synthetic stream has ended
StreamConsumed == net = <<>> /\ pc = "idle" /\ result # "none"

\* C1: fed the loss-free in-order stream of packets 1..PACKETS_IN_FRAME_CLIPPED,
\* read() emits a frame with lost_packets = 0 and every packet slot written
C1_LossFreeFrame ==
    (scenario.frames = 1 /\ ~scenario.prefixed /\ scenario.omitted = 0 /\ StreamConsumed)
        => /\ result = "frame"
           /\ lost_packets = <<0>>
           /\ \A k \in 0..(PACKETS_IN_FRAME_CLIPPED - 1) : 0 \notin SlotWords(ret_frame, k)

\* C2: fed the same stream without intermediate packet j, read() emits a frame
\* with lost_packets = 1 whose slot j-1 still holds zeros
C2_OneLostPacket ==
    (scenario.frames = 1 /\ ~scenario.prefixed /\ scenario.omitted >= 1 /\ StreamConsumed)
        => /\ result = "frame"
           /\ lost_packets = <<1>>
           /\ SlotWords(ret_frame, scenario.omitted - 1) = {0}

\* C3: a receive that gives no packet ends read() with None at once, and a
\* frame is returned only by the step that ingests a boundary packet while
\* accumulating
C3_NoPartialFrame ==
    [][pc # "idle" =>
          /\ (~pkt'.ok => (pc' = "idle" /\ result' = NoneValue /\ ret_frame' = <<>>))
          /\ ((pc' = "idle" /\ result' = "frame") => (pc = "accum" /\ IsBoundary(pkt')))
          /\ (ret_frame' # <<>> /\ pc' = "idle" => result' = "frame")]_vars

\* a read() that was accumulating ended with None on a timeout
C3_Witness ==
    pc = "idle" /\ result = NoneValue /\ dlen = -1 /\ packets_read >= 1

\* C4 as claimed: a read() to which no boundary packet is delivered
\* ends, also when non-boundary packets keep arriving
C4_AlwaysTerminates ==
    (pc # "idle") ~> (pc = "idle" \/ IsBoundary(pkt))

\* C4 as amended: a read() whose receive gives no packet within the timeout
\* ends with None, and from then on only a new call takes it out of idle
C4_TimeoutTerminates ==
    /\ [][(pc # "idle" /\ dlen' = -1) => (pc' = "idle" /\ result' = NoneValue)]_vars
    /\ (pc # "idle") ~> (pc = "idle" \/ pkt.ok)

\* a read() that never got a boundary packet has ended with None on a timeout
C4_Witness ==
    pc = "idle" /\ result = NoneValue /\ dlen = -1 /\ packets_read = 0

\* C7 as claimed: a returned frame has BYTES_IN_FRAME_CLIPPED/2 words
C7_ClippedLength ==
    (pc = "idle" /\ result = "frame") => Len(ret_frame) = BYTES_IN_FRAME_CLIPPED \div 2

\* C7 as amended: a returned frame has UINT16_IN_FRAME = BYTES_IN_FRAME/2 words
C7_FullLength ==
    (pc = "idle" /\ result = "frame") => Len(ret_frame) = UINT16_IN_FRAME

C7_Witness ==
    pc = "idle" /\ result = "frame" /\ lost_packets = <<0>>

\* C8: after an aborted read() the next read() starts as on a new session (an
\* all-zero buffer, no packet counted), and the abort leaves lost_packets alone
C8_AbortLeavesSessionUsable ==
    /\ [](pc = "seek" => (ret_frame = zeros(UINT16_IN_FRAME) /\ packets_read = 0))
    /\ [][(pc # "idle" /\ pc' = "idle" /\ result' = NoneValue)
             => lost_packets' = lost_packets]_vars

\* a read() under way after a frame was returned and a later read() aborted
C8_Witness ==
    pc = "seek" /\ result = NoneValue /\ lost_packets # <<>>

\* C9: a datagram of fewer than HEADER_BYTES bytes is not decoded, and read()
\* ends with None and no buffer
C9_ShortDatagram ==
    [][(pc # "idle" /\ dlen' \in 0..(HEADER_BYTES - 1))
          => (~pkt'.ok /\ pc' = "idle" /\ result' = NoneValue /\ ret_frame' = <<>>)]_vars

\* a read() that was accumulating got a 9-byte datagram and ended with None
C9_Witness ==
    pc = "idle" /\ result = NoneValue /\ dlen = HEADER_BYTES - 1 /\ packets_read >= 1

\* C10: no decoded packet makes read() raise
C10_NeverRaises ==
    result # "ValueError"

\* C11: the boundary packet that completes a frame has its payload written
\* into slot (packet_num - 1) mod PACKETS_IN_FRAME_CLIPPED of the frame returned
C11_BoundaryPayloadWritten ==
    [][(pc = "accum" /\ pc' = "idle" /\ result' = "frame"
            /\ Len(pkt'.data) = UINT16_IN_PACKET)
          => LET slot == (pkt'.num - 1) % PACKETS_IN_FRAME_CLIPPED
             IN  Slice(ret_frame', slot * UINT16_IN_PACKET,
                       (slot + 1) * UINT16_IN_PACKET) = pkt'.data]_vars

\* C12: the step that returns a frame counts the closing packet and stores
\* lost_packets = PACKETS_IN_FRAME_CLIPPED - packets_read as it is, also when
\* that is negative
C12_LossCount ==
    [][(pc = "accum" /\ pc' = "idle" /\ result' = "frame")
          => /\ packets_read' = packets_read + 1
             /\ lost_packets' = <<PACKETS_IN_FRAME_CLIPPED - packets_read'>>]_vars

\* a frame was returned after more packets than a frame holds: the loss is -1
C12_Witness ==
    /\ pc = "idle" /\ result = "frame"
    /\ packets_read = PACKETS_IN_FRAME_CLIPPED + 1
    /\ lost_packets = <<-1>>

\* C13: while read() waits for the start of a frame, a non-boundary packet
\* leaves the all-zero buffer and the state as they were, and the first
\* boundary packet starts the accumulation with its payload at offset 0 and
\* packets_read = 1
C13_SeekingStart ==
    [][(pc = "seek" /\ pkt'.ok)
          => IF IsBoundary(pkt')
             THEN /\ pc' = "accum"
                  /\ packets_read' = 1
                  /\ Slice(ret_frame', 0, Len(pkt'.data)) = pkt'.data
             ELSE /\ pc' = "seek"
                  /\ ret_frame' = zeros(UINT16_IN_FRAME)
                  /\ packets_read' = packets_read
                  /\ result' = result /\ lost_packets' = lost_packets]_vars

\* the words of a frame outside slot k
OutsideSlot(frame, k) ==
    {i \in 1..Len(frame) : i <= k * UINT16_IN_PACKET \/ i > (k + 1) * UINT16_IN_PACKET}

\* C14: while accumulating, a non-boundary packet with a full payload is
\* written into words [slot*UINT16_IN_PACKET, (slot+1)*UINT16_IN_PACKET) with
\* slot = (packet_num - 1) mod PACKETS_IN_FRAME_CLIPPED and every other word
\* stays; packets_read goes up by one also when nothing could be written (the
\* only other value it takes is the 0 of the safety valve, past a full frame)
C14_IntermediateWrite ==
    [][(pc = "accum" /\ pkt'.ok /\ ~IsBoundary(pkt'))
          => LET slot == (pkt'.num - 1) % PACKETS_IN_FRAME_CLIPPED
             IN  /\ pc' = "accum"
                 /\ Len(ret_frame') = Len(ret_frame)
                 /\ \A i \in OutsideSlot(ret_frame, slot) : ret_frame'[i] = ret_frame[i]
                 /\ Len(pkt'.data) = UINT16_IN_PACKET
                       => Slice(ret_frame', slot * UINT16_IN_PACKET,
                                (slot + 1) * UINT16_IN_PACKET) = pkt'.data
                 /\ Len(pkt'.data) \notin {1, UINT16_IN_PACKET} => ret_frame' = ret_frame
                 /\ packets_read' \in {packets_read + 1, 0}
                 /\ packets_read' = 0 => packets_read + 1 > PACKETS_IN_FRAME_CLIPPED]_vars

\* a full packet with sequence number 0 was written into the last slot
C14_Witness ==
    /\ pc = "accum" /\ pkt.ok /\ ~IsBoundary(pkt)
    /\ pkt.num = 0 /\ Len(pkt.data) = UINT16_IN_PACKET
    /\ 0 \notin SlotWords(ret_frame, PACKETS_IN_FRAME_CLIPPED - 1)
    /\ packets_read = 2

\* C15: when a non-boundary packet takes packets_read past
\* PACKETS_IN_FRAME_CLIPPED, packets_read becomes 0 and that is all the reset
\* does: the buffer keeps what was written (this packet's slot included), the
\* loop goes on accumulating and no frame is returned
C15_SafetyValve ==
    [][(pc = "accum" /\ pkt'.ok /\ ~IsBoundary(pkt')
            /\ packets_read + 1 > PACKETS_IN_FRAME_CLIPPED)
          => /\ packets_read' = 0
             /\ pc' = "accum"
             /\ result' = result
             /\ lost_packets' = lost_packets
             /\ Len(ret_frame') = Len(ret_frame)
             /\ \A i \in OutsideSlot(ret_frame, (pkt'.num - 1) % PACKETS_IN_FRAME_CLIPPED) :
                   ret_frame'[i] = ret_frame[i]]_vars

\* the counter was reset while the buffer holds the packets written so far
C15_Witness ==
    /\ pc = "accum" /\ packets_read = 0
    /\ pkt.ok /\ ~IsBoundary(pkt)
    /\ 0 \notin SlotWords(ret_frame, 0)

\* C17: packets_read is in 0..PACKETS_IN_FRAME_CLIPPED whenever the second
\* loop is about to receive, and every stored loss count is in
\* -1..PACKETS_IN_FRAME_CLIPPED - 1
C17_CounterRange ==
    /\ pc = "accum" => packets_read \in 0..PACKETS_IN_FRAME_CLIPPED
    /\ lost_packets # <<>>
          => lost_packets[1] \in (-1)..(PACKETS_IN_FRAME_CLIPPED - 1)

\* a full frame's worth of packets was counted after a frame with loss -1
C17_Witness ==
    /\ pc = "accum" /\ packets_read = PACKETS_IN_FRAME_CLIPPED
    /\ lost_packets = <<-1>>

\* C18: the slot of every decoded sequence number, negative ones and 0
\* included, is in 0..PACKETS_IN_FRAME_CLIPPED - 1, and the buffer words past
\* the clipped frame are zero in every buffer and every returned frame
C18_SlotInRange ==
    /\ pkt.ok => CurrIdx(pkt.num) \in 0..(PACKETS_IN_FRAME_CLIPPED - 1)
    /\ \A i \in 1..Len(ret_frame) :
          i > PACKETS_IN_FRAME_CLIPPED * UINT16_IN_PACKET => ret_frame[i] = 0

\* a full packet with a negative sequence number was written into a buffer
\* that has words past the clipped frame
C18_Witness ==
    /\ pc = "accum" /\ pkt.ok /\ ~IsBoundary(pkt)
    /\ pkt.num < 0 /\ Len(pkt.data) = UINT16_IN_PACKET
    /\ 0 \notin SlotWords(ret_frame, CurrIdx(pkt.num))
    /\ Len(ret_frame) > PACKETS_IN_FRAME_CLIPPED * UINT16_IN_PACKET

\* 256^i
RECURSIVE Pow256(_)
Pow256(i) == IF i = 0 THEN 1 ELSE 256 * Pow256(i - 1)

\* the sum over i in 0..5 of data[4+i] * 256^i (zero bytes add nothing)
RECURSIVE LittleEndianSum(_, _)
LittleEndianSum(data, i) ==
    IF i > 5 THEN 0
    ELSE (IF data[5 + i] = 0 THEN 0 ELSE data[5 + i] * Pow256(i))
         + LittleEndianSum(data, i + 1)

\* bytes 0..3 as a signed little-endian 32-bit integer
SignedLittleEndian(data) ==
    data[1] + 256 * data[2] + 65536 * data[3]
    + 16777216 * (IF data[4] >= 128 THEN data[4] - 256 ELSE data[4])

\* C16: for a decoded datagram of at least HEADER_BYTES bytes, the operand of
\* the byte count is bytes 4..9 reversed after two zero bytes, byte_count is
\* the sum of data[4+i] * 256^i and is not negative, and packet_num is bytes
\* 0..3 as a signed little-endian 32-bit integer
C16_HeaderDecode ==
    [][(pc # "idle" /\ net # <<>> /\ net' = Tail(net)
            /\ Len(Head(net)) >= HEADER_BYTES /\ pkt'.ok)
          => LET data == Head(net)
                 b == CountField(data)
             IN  /\ Len(b) = 8 /\ b[1] = 0 /\ b[2] = 0
                 /\ \A i \in 0..5 : b[8 - i] = data[5 + i]
                 /\ pkt'.bc = LittleEndianSum(data, 0)
                 /\ pkt'.bc >= 0
                 /\ pkt'.num = SignedLittleEndian(data)]_vars

\* a datagram with the sign bit set in byte 3 and a byte count of four
\* significant bytes was decoded
C16_Witness ==
    /\ pkt.ok
    /\ pkt.num < -16777216
    /\ pkt.bc > 16777216 /\ pkt.bc % 256 = 1

\* C19: the packet that closes a frame is taken off the socket by the read()
\* that returns the frame, and a read() that follows a returned frame skips
\* non-boundary packets and starts its frame at a boundary packet later than
\* that closing packet, so consecutive frames share no boundary packet
C19_BoundaryNotReused ==
    [][/\ (pc = "accum" /\ pc' = "idle" /\ result' = "frame")
             => /\ net # <<>> /\ net' = Tail(net)
                /\ pkt' = _read_data_packet([timeout |-> FALSE, data |-> Head(net)])
                /\ scenario'.closing = <<pkt'.num>>
       /\ (pc = "seek" /\ pkt'.ok /\ ~IsBoundary(pkt')) => pc' = "seek"
       /\ (pc = "seek" /\ pc' = "accum" /\ scenario.closing # <<>>)
             => (IsBoundary(pkt') /\ pkt'.num > scenario.closing[1])]_vars

\* the second of two consecutive read() calls returned a frame: the first ended
\* at packet P, the second started at packet 2P and ended at packet 3P
C19_Witness ==
    /\ pc = "idle" /\ result = "frame"
    /\ scenario.prefixed
    /\ scenario.closing = <<3 * PACKETS_IN_FRAME_CLIPPED>>
    /\ ret_frame[1] = 2 * PACKETS_IN_FRAME_CLIPPED

(***************************************************************************)
(* Claims about the control path.                                          *)
(***************************************************************************)
\* C5: configure() sends its five commands in order, sends command k+1 only
\* after it received the reply to command k, and after a timeout sends no
\* further command and ends with an exception
C5_ConfigureSequence ==
    [][/\ (cfg_step' # cfg_step /\ cfg_step' # 0)
             => /\ cfg_step' = cfg_step + 1
                /\ sends' = sends + 1
                /\ sent_msg' = BuildMessage(ConfigureCalls[cfg_step']).bytes
       /\ (cfg_step >= 1 /\ cfg_step' = cfg_step + 1)
             => (response'.kind = "reply" /\ response'.to = awaiting)
       /\ (cfg_step >= 1 /\ awaiting' = 0 /\ response'.kind = "timeout")
             => (cfg_step' = 0 /\ cfg_result' = "AttributeError" /\ sends' = sends)]_vars

\* C6: the message of every typed send_command call is header, code,
\* paramLength, params, footer with paramLength = number of parameter bytes
C6_ParamLength ==
    (awaiting # 0 /\ call.typed) =>
        LET n == Len(sent_msg)
        IN  /\ n >= 8
            /\ SubSeq(sent_msg, 1, 2) = fromhex(CONFIG_HEADER).bytes
            /\ SubSeq(sent_msg, 3, 4) = fromhex(CMD[call.cmd]).bytes
            /\ SubSeq(sent_msg, n - 1, n) = fromhex(CONFIG_FOOTER).bytes
            /\ SubSeq(sent_msg, 7, n - 2) = fromhex(call.params).bytes
            /\ sent_msg[5] + 256 * sent_msg[6] = n - 8

\* C20: the reply a send_command call returns is the device's reply to the
\* datagram that call sent, never the late reply to an earlier command
C20_ReplyMatchesCommand ==
    [][(awaiting # 0 /\ cfg_sock # <<>> /\ cfg_sock' = Tail(cfg_sock)
            /\ response'.kind = "reply")
          => response'.to = awaiting]_vars

====
